---- MODULE Spec2Model ----
(***************************************************************************)
(* A model of vpnc/__init__.py: the VPNC session wrapper around the vpnc   *)
(* binary.  A session object renders a six-line config file, moves it into *)
(* the privileged directory with mv/chown/chmod, runs vpnc, and on         *)
(* teardown runs vpnc-disconnect and rm.  Every external command goes      *)
(* through process_call, which blocks and raises on a non-zero exit code.  *)
(*                                                                         *)
(* A path is the sequence of its components, a command line the sequence   *)
(* of its arguments, each argument itself a sequence of components, so     *)
(* that the word "rm" is <<"rm">> and a path <<"/etc/vpnc", "x.conf">>.    *)
(* The filesystem is a function from the paths that exist to their files.  *)
(*                                                                         *)
(* The external programs are not part of the repository.  They are         *)
(* modelled by what they are documented to do when they exit zero, and a   *)
(* command that exits non-zero is taken to have changed nothing.  The      *)
(* privileged directory is taken to exist and to differ from the package   *)
(* directory.  Any command may fail for a reason the model does not see    *)
(* (permissions, a missing binary, a signal), so its exit code is a free   *)
(* choice, except that a command cannot exit zero when the file it works   *)
(* on is not there.                                                        *)
(***************************************************************************)
EXTENDS Integers, Sequences, FiniteSets, TLC

VARIABLES
    platform,          \* sys.platform of the host, shared by all sessions
    config,            \* self.config of each VPNC object
    config_file,       \* self.config_file
    config_folder,     \* self.config_folder
    temp_config_path,  \* self.temp_config_path
    config_path,       \* self.config_path
    fs,                \* the host's filesystem: path -> file
    tunnel,            \* the vpnc daemon of the host (its pid file)
    pc,                \* per session: the steps still to run in the current call
    op,                \* per session: the current (or last) top-level call
    last,              \* per session: the call before it and how it ended
    cmds,              \* per session: the process_call log of the current call
    exc,               \* per session: the exception the current call left with
    rm_ret,            \* per session: what remove_config_file returned
    block,             \* per session: how the caller's with-block ended
    calls              \* per session: number of top-level calls made

vars == <<platform, config, config_file, config_folder, temp_config_path,
          config_path, fs, tunnel, pc, op, last, cmds, exc, rm_ret, block, calls>>

----------------------------------------------------------------------------
(* Bounds and input sets *)

\* Top-level calls (connect, disconnect, vpn) one session makes when alone.
MaxCalls == 3

\* Top-level calls each of two overlapping sessions makes.
MaxRaceCalls == 1

\* Exit codes the external commands are tried with: success, a plain
\* failure, and death by signal 9 (subprocess reports -9).
ExitCodes == {0, 2, -9}

Platforms == {"linux", "darwin"}

\* The package directory, os.path.dirname(os.path.realpath(__file__)).
HERE == <<"HERE">>

\* None for the config_folder argument.
NoFolder == <<>>

CustomFolder == <<"/opt/vpnc">>

DefaultConfigFile == "tempvpnc.conf"

ConfigFileArgs == {DefaultConfigFile, "other.conf"}

\* The six keys the template names, in the template's order, each with the
\* text that precedes its value on its line.
Template ==
    << <<"IPSec gateway", "IPSec_gateway">>,
       <<"IPSec ID", "IPSec_ID">>,
       <<"IPSec secret", "IPSec_secret">>,
       <<"IKE Authmode", "IKE_Authmode">>,
       <<"Xauth username", "Xauth_username">>,
       <<"Xauth password", "Xauth_password">> >>

Keys == {Template[i][2] : i \in 1..Len(Template)}

\* The mapping of the module docstring.
ExampleConfig ==
    [k \in Keys |->
        CASE k = "IPSec_gateway" -> "my.gateway.com"
          [] k = "IPSec_ID" -> "my IPSec ID"
          [] k = "IPSec_secret" -> "my IPSec secret"
          [] k = "IKE_Authmode" -> "psk"
          [] k = "Xauth_username" -> "my Xauth username"
          [] k = "Xauth_password" -> "my Xauth password"]

\* A second complete mapping, for a second session.
OtherConfig == [k \in Keys |-> IF k = "IKE_Authmode" THEN "psk" ELSE "their " \o k]

Restrict(f, D) == [k \in D |-> f[k]]

\* config arguments: complete, None / {}, lacking two keys, and lacking
\* exactly one key.
ConfigArgs ==
    {ExampleConfig, Restrict(ExampleConfig, {}),
     Restrict(ExampleConfig, Keys \ {"IPSec_secret", "Xauth_password"})}
        \cup {Restrict(ExampleConfig, Keys \ {k}) : k \in Keys}

----------------------------------------------------------------------------
(* Exceptions *)

NoExc == [cls |-> "None", returncode |-> 0, cmd |-> <<>>, stdout |-> "", stderr |-> ""]

\* The direct base class of each exception class involved.
Base(cls) ==
    CASE cls = "ProcessException" -> "Exception"
      [] cls = "CalledProcessError" -> "SubprocessError"
      [] cls = "SubprocessError" -> "Exception"
      [] cls = "KeyError" -> "LookupError"
      [] cls = "LookupError" -> "Exception"
      [] cls = "IOError" -> "Exception"
      [] cls = "BlockError" -> "Exception"
      [] OTHER -> "BaseException"

RECURSIVE IsSubclass(_, _)
IsSubclass(cls, of) ==
    IF cls = of THEN TRUE
    ELSE IF cls = "BaseException" THEN FALSE
    ELSE IsSubclass(Base(cls), of)

\* ProcessException(returncode, cmd, stdout, stderr).
ProcessException(returncode, cmd, stdout, stderr) ==
    [cls |-> "ProcessException", returncode |-> returncode, cmd |-> cmd,
     stdout |-> stdout, stderr |-> stderr]

OtherException(cls, what) ==
    [cls |-> cls, returncode |-> 0, cmd |-> <<<<what>>>>, stdout |-> "", stderr |-> ""]

----------------------------------------------------------------------------
(* process_call *)

\* What the child wrote: nothing on success, a message on stderr otherwise.
Stdout(code) == ""
Stderr(code) == IF code = 0 THEN "" ELSE "error"

\* process_call as a plausible change would make it: only a positive exit status raises.
process_call_positive(cmd, returncode) ==
    IF returncode > 0
    THEN [raised |-> TRUE,
          exc |-> ProcessException(returncode, cmd, Stdout(returncode), Stderr(returncode)),
          ret |-> <<>>]
    ELSE [raised |-> FALSE, exc |-> NoExc,
          ret |-> <<returncode, Stdout(returncode), Stderr(returncode)>>]

\* process_call as a plausible change would make it: the exit code is returned, never raised.
process_call_noraise(cmd, returncode) ==
    [raised |-> FALSE, exc |-> NoExc,
     ret |-> <<returncode, Stdout(returncode), Stderr(returncode)>>]

\* process_call(cmd), given the exit code the child ends with.
process_call(cmd, returncode) ==
    IF returncode # 0
    THEN [raised |-> TRUE,
          exc |-> ProcessException(returncode, cmd, Stdout(returncode), Stderr(returncode)),
          ret |-> <<>>]
    ELSE [raised |-> FALSE, exc |-> NoExc,
          ret |-> <<returncode, Stdout(returncode), Stderr(returncode)>>]

----------------------------------------------------------------------------
(* Paths and the constructor *)

\* os.path.join(dir, name) for a plain file name.
Join(dir, name) == Append(dir, name)

Basename(path) == path[Len(path)]

\* self.temp_config_path of session s.
TempPath(s, file) == Join(HERE, file)

\* self.config_folder: the argument, or the platform's vpnc directory.
FolderFor(folder, plat) ==
    IF folder # NoFolder THEN folder
    ELSE IF plat = "linux" THEN <<"/etc/vpnc">>
    ELSE <<"/usr/local/etc/vpnc">>

\* PrivPath as a plausible change would make it: the privileged file is named after the session.
PrivPathPerSession(s, folder, file) == Join(folder, ToString(s) \o "-" \o file)

\* self.config_path of session s.
PrivPath(s, folder, file) == Join(folder, file)

----------------------------------------------------------------------------
(* create_config_file *)

NoLines == <<>>

\* Format as a plausible change would make it: a missing key is substituted by a marker.
FormatWithMarker(cfg) ==
    [raised |-> FALSE, exc |-> NoExc,
     lines |-> [i \in 1..Len(Template) |->
                 <<Template[i][1],
                   IF Template[i][2] \in DOMAIN cfg THEN cfg[Template[i][2]]
                   ELSE "None">>]]

\* template % self.config: the keys are looked up in the template's order
\* and the first one the mapping lacks raises KeyError.
Format(cfg) ==
    LET missing == {i \in 1..Len(Template) : Template[i][2] \notin DOMAIN cfg}
        first == CHOOSE i \in missing : \A j \in missing : i <= j
    IN  IF missing # {}
        THEN [raised |-> TRUE, exc |-> OtherException("KeyError", Template[first][2]),
              lines |-> NoLines]
        ELSE [raised |-> FALSE, exc |-> NoExc,
              lines |-> [i \in 1..Len(Template) |->
                          <<Template[i][1], cfg[Template[i][2]]>>]]

NewFile == [content |-> NoLines, owner |-> "caller", mode |-> "default"]

\* open(path, "w+"): the file is created, or truncated if it is there.
OpenW(f, path) ==
    IF path \in DOMAIN f
    THEN [f EXCEPT ![path].content = NoLines]
    ELSE [p \in DOMAIN f \cup {path} |-> IF p = path THEN NewFile ELSE f[p]]

\* print(text, file=f)
Write(f, path, lines) == [f EXCEPT ![path].content = lines]

----------------------------------------------------------------------------
(* The external commands *)

NoTunnel == [up |-> FALSE, by |-> 0, conf |-> NoLines]

\* vpnc <name> reads <name>.conf in the platform's vpnc directory.
ProfilePath(plat, profile) == Join(FolderFor(NoFolder, plat), profile[1] \o ".conf")

Remove(f, path) == [p \in DOMAIN f \ {path} |-> f[p]]

\* Whether the command can exit zero on filesystem f with daemon t.
CanExitZero(cmd, f, t, plat) ==
    CASE cmd[1] = <<"mv">> -> cmd[2] \in DOMAIN f
      [] cmd[1] = <<"chown">> -> cmd[3] \in DOMAIN f
      [] cmd[1] = <<"chmod">> -> cmd[3] \in DOMAIN f
      [] cmd[1] = <<"rm">> -> cmd[2] \in DOMAIN f
      [] cmd[1] = <<"vpnc">> -> ProfilePath(plat, cmd[2]) \in DOMAIN f
      [] cmd[1] = <<"vpnc-disconnect">> -> t.up
      [] OTHER -> FALSE

\* The filesystem after the command has exited zero.
FsAfter(cmd, f) ==
    CASE cmd[1] = <<"mv">> ->
            LET dst == Join(cmd[3], Basename(cmd[2]))
            IN  [p \in (DOMAIN f \ {cmd[2]}) \cup {dst} |->
                    IF p = dst THEN f[cmd[2]] ELSE f[p]]
      [] cmd[1] = <<"chown">> -> [f EXCEPT ![cmd[3]].owner = "root"]
      [] cmd[1] = <<"chmod">> -> [f EXCEPT ![cmd[3]].mode = cmd[2][1]]
      [] cmd[1] = <<"rm">> -> Remove(f, cmd[2])
      [] OTHER -> f

\* The daemon after the command, run by session s, has exited zero.
TunnelAfter(cmd, f, t, s, plat) ==
    CASE cmd[1] = <<"vpnc">> ->
            [up |-> TRUE, by |-> s, conf |-> f[ProfilePath(plat, cmd[2])].content]
      [] cmd[1] = <<"vpnc-disconnect">> -> NoTunnel
      [] OTHER -> t

\* A profile the host's administrator wrote, not this program.
ForeignProfile ==
    [content |-> << <<"IPSec gateway", "old.gateway.com">> >>,
     owner |-> "root", mode |-> "600"]

EmptyDisk == <<>>

\* The filesystems a session may start on.
Disks(plat) ==
    {EmptyDisk,
     [p \in {ProfilePath(plat, <<"tempvpnc">>)} |-> ForeignProfile]}

----------------------------------------------------------------------------
(* The argument lists the methods pass to process_call *)

mv_args(s) == << <<"mv">>, temp_config_path[s], config_folder[s] >>

chown_args(s) == << <<"chown">>, <<"root:root">>, config_path[s] >>

chmod_args(s) == << <<"chmod">>, <<"600">>, config_path[s] >>

rm_args(s) == << <<"rm">>, config_path[s] >>

\* The profile named after the configured file: "x.conf" -> "x".
Stem(file) == IF file = DefaultConfigFile THEN "tempvpnc" ELSE "other"

\* vpnc_args as a plausible change would make it: the profile follows config_file.
vpnc_args_by_file(s) == << <<"vpnc">>, <<Stem(config_file[s])>> >>

vpnc_args(s) == << <<"vpnc">>, <<"tempvpnc">> >>

disconnect_args(s) == << <<"vpnc-disconnect">> >>

----------------------------------------------------------------------------
(* The steps of each method, in the order the method runs them *)

\* move_config_file as a plausible change would make it: the chmod is left out.
move_config_file_nochmod == <<"mv", "chown">>

move_config_file == <<"mv", "chown", "chmod">>

remove_config_file == <<"rm">>

connect == <<"create_config_file">> \o move_config_file \o <<"vpnc">>

\* disconnect as a plausible change would make it: the config file is not removed.
disconnect_keepfile == <<"vpnc-disconnect">>

disconnect == <<"vpnc-disconnect">> \o remove_config_file

\* vpn as a plausible change would make it: nothing runs after the yield.
vpn_nodisconnect == connect \o <<"yield">>

\* vpn(): connect, hand control to the with-block, disconnect.
vpn == connect \o <<"yield">> \o disconnect

\* vpn_throw as a plausible change would make it: the yield sits in try/finally.
vpn_throw_finally == disconnect

\* What vpn() still runs when the with-block's exception is thrown into it
\* at the yield: nothing, the yield is not inside a try.
vpn_throw == <<>>

\* The exception class remove_config_file catches.
remove_config_file_catches == "CalledProcessError"

----------------------------------------------------------------------------
(* Construction *)

\* VPNC.__init__ for every session of S on one host: cfg, file and folder
\* give each session's arguments.
Construct(S, plat, cfg, file, folder, disk) ==
    /\ platform = plat
    /\ config = cfg
    /\ config_file = file
    /\ config_folder = [s \in S |-> FolderFor(folder[s], plat)]
    /\ temp_config_path = [s \in S |-> TempPath(s, file[s])]
    /\ config_path = [s \in S |-> PrivPath(s, FolderFor(folder[s], plat), file[s])]
    /\ fs = disk
    /\ tunnel = NoTunnel
    /\ pc = [s \in S |-> <<>>]
    /\ op = [s \in S |-> "none"]
    /\ last = [s \in S |-> <<"none", "none">>]
    /\ cmds = [s \in S |-> <<>>]
    /\ exc = [s \in S |-> NoExc]
    /\ rm_ret = [s \in S |-> "none"]
    /\ block = [s \in S |-> "none"]
    /\ calls = [s \in S |-> 0]

\* One session, any platform, any constructor arguments, on a host with or
\* without a tempvpnc profile of its own.
Init ==
    \E plat \in Platforms, cfg \in ConfigArgs, file \in ConfigFileArgs,
       folder \in {NoFolder, CustomFolder} :
      \E disk \in Disks(plat) :
        Construct({1}, plat, [s \in {1} |-> cfg], [s \in {1} |-> file],
                  [s \in {1} |-> folder], disk)

\* Two sessions on one host, both with the default paths, each with its own
\* complete config.
InitRace ==
    \E plat \in Platforms :
        Construct({1, 2}, plat,
                  [s \in {1, 2} |-> IF s = 1 THEN ExampleConfig ELSE OtherConfig],
                  [s \in {1, 2} |-> DefaultConfigFile],
                  [s \in {1, 2} |-> NoFolder], EmptyDisk)

----------------------------------------------------------------------------
(* The caller starts a method *)

instance == <<platform, config, config_file, config_folder, temp_config_path, config_path>>

Outcome(s) ==
    IF op[s] = "none" THEN "none"
    ELSE IF exc[s].cls = "None" THEN "returned" ELSE "raised"

Start(s, name, steps) ==
    /\ pc[s] = <<>>
    /\ pc' = [pc EXCEPT ![s] = steps]
    /\ op' = [op EXCEPT ![s] = name]
    /\ last' = [last EXCEPT ![s] = <<op[s], Outcome(s)>>]
    /\ cmds' = [cmds EXCEPT ![s] = <<>>]
    /\ exc' = [exc EXCEPT ![s] = NoExc]
    /\ rm_ret' = [rm_ret EXCEPT ![s] = "none"]
    /\ block' = [block EXCEPT ![s] = "none"]
    /\ calls' = [calls EXCEPT ![s] = @ + 1]
    /\ UNCHANGED <<instance, fs, tunnel>>

CallConnect(s, max) == calls[s] < max /\ Start(s, "connect", connect)

CallDisconnect(s, max) == calls[s] < max /\ Start(s, "disconnect", disconnect)

EnterVpn(s, max) == calls[s] < max /\ Start(s, "vpn", vpn)

----------------------------------------------------------------------------
(* The steps *)

At(s, step) == pc[s] # <<>> /\ Head(pc[s]) = step

Advance(s) == pc' = [pc EXCEPT ![s] = Tail(@)]

\* An exception leaves the current call: nothing of it runs any more.
Propagate(s, e) ==
    /\ pc' = [pc EXCEPT ![s] = <<>>]
    /\ exc' = [exc EXCEPT ![s] = e]

\* create_config_file, open() failing: IOError, nothing is written.
CreateConfigFileIOError(s) ==
    /\ At(s, "create_config_file")
    /\ Propagate(s, OtherException("IOError", "open"))
    /\ UNCHANGED <<instance, fs, tunnel, op, last, cmds, rm_ret, block, calls>>

\* create_config_file, open() succeeding: the file is created or truncated,
\* then the template is formatted and, if that did not raise, printed.
CreateConfigFile(s) ==
    /\ At(s, "create_config_file")
    /\ LET opened == OpenW(fs, temp_config_path[s])
           text == Format(config[s])
       IN  IF text.raised
           THEN /\ fs' = opened
                /\ Propagate(s, text.exc)
           ELSE /\ fs' = Write(opened, temp_config_path[s], text.lines)
                /\ Advance(s)
                /\ exc' = exc
    /\ UNCHANGED <<instance, tunnel, op, last, cmds, rm_ret, block, calls>>

\* process_call(cmd) by session s, the child exiting with `code`.  `caught`
\* is the exception class an enclosing try of the method catches ("" when
\* there is none).
Invoke(s, cmd, code, caught) ==
    LET r == process_call(cmd, code)
        ok == code = 0
    IN  /\ code = 0 => CanExitZero(cmd, fs, tunnel, platform)
        /\ cmds' = [cmds EXCEPT ![s] =
                        Append(@, [cmd |-> cmd, returncode |-> code, result |-> r])]
        /\ fs' = IF ok THEN FsAfter(cmd, fs) ELSE fs
        /\ tunnel' = IF ok THEN TunnelAfter(cmd, fs, tunnel, s, platform) ELSE tunnel
        /\ IF r.raised /\ caught # "" /\ IsSubclass(r.exc.cls, caught)
           THEN /\ Advance(s)
                /\ exc' = exc
                /\ rm_ret' = [rm_ret EXCEPT ![s] = "False"]
           ELSE IF r.raised
           THEN /\ Propagate(s, r.exc)
                /\ rm_ret' = rm_ret
           ELSE /\ Advance(s)
                /\ exc' = exc
                /\ rm_ret' = IF caught # "" THEN [rm_ret EXCEPT ![s] = "True"]
                             ELSE rm_ret
        /\ UNCHANGED <<instance, op, last, block, calls>>

Mv(s) == At(s, "mv") /\ \E code \in ExitCodes : Invoke(s, mv_args(s), code, "")

Chown(s) == At(s, "chown") /\ \E code \in ExitCodes : Invoke(s, chown_args(s), code, "")

Chmod(s) == At(s, "chmod") /\ \E code \in ExitCodes : Invoke(s, chmod_args(s), code, "")

Vpnc(s) == At(s, "vpnc") /\ \E code \in ExitCodes : Invoke(s, vpnc_args(s), code, "")

VpncDisconnect(s) ==
    At(s, "vpnc-disconnect") /\ \E code \in ExitCodes : Invoke(s, disconnect_args(s), code, "")

\* remove_config_file: rm inside try / except, True or False returned.
Rm(s) ==
    At(s, "rm") /\ \E code \in ExitCodes :
        Invoke(s, rm_args(s), code, remove_config_file_catches)

\* The with-block ends normally: the generator is resumed after the yield.
BlockReturns(s) ==
    /\ At(s, "yield")
    /\ Advance(s)
    /\ block' = [block EXCEPT ![s] = "returned"]
    /\ UNCHANGED <<instance, fs, tunnel, op, last, cmds, exc, rm_ret, calls>>

\* The with-block raises: the exception is thrown into the generator at the
\* yield and leaves vpn() once what vpn() still runs has run.
BlockRaises(s) ==
    /\ At(s, "yield")
    /\ pc' = [pc EXCEPT ![s] = vpn_throw]
    /\ exc' = [exc EXCEPT ![s] = OtherException("BlockError", "block")]
    /\ block' = [block EXCEPT ![s] = "raised"]
    /\ UNCHANGED <<instance, fs, tunnel, op, last, cmds, rm_ret, calls>>

Step(s, max) ==
    \/ CallConnect(s, max)
    \/ CallDisconnect(s, max)
    \/ EnterVpn(s, max)
    \/ CreateConfigFileIOError(s)
    \/ CreateConfigFile(s)
    \/ Mv(s)
    \/ Chown(s)
    \/ Chmod(s)
    \/ Vpnc(s)
    \/ VpncDisconnect(s)
    \/ Rm(s)
    \/ BlockReturns(s)
    \/ BlockRaises(s)

Next == \E s \in {1} : Step(s, MaxCalls)

Spec == Init /\ [][Next]_vars

NextRace == \E s \in {1, 2} : Step(s, MaxRaceCalls)

SpecRace == InitRace /\ [][NextRace]_vars

----------------------------------------------------------------------------
(* Reading the state *)

Sessions == DOMAIN pc

\* The positions in session s's log of the invocations of program `name`.
Ran(s, name) == {i \in 1..Len(cmds[s]) : cmds[s][i].cmd[1] = <<name>>}

Programs(s) == [i \in 1..Len(cmds[s]) |-> cmds[s][i].cmd[1][1]]

AllZero(s) == \A i \in 1..Len(cmds[s]) : cmds[s][i].returncode = 0

\* The step just taken was a process_call by session s.
Invoked(s) == Len(cmds'[s]) = Len(cmds[s]) + 1

Newest(s) == cmds'[s][Len(cmds'[s])]

Lacking(s) == {i \in 1..Len(Template) : Template[i][2] \notin DOMAIN config[s]}

\* The six lines of a complete config, in the template's order.
SixLines(s) ==
    [i \in 1..Len(Template) |-> <<Template[i][1], config[s][Template[i][2]]>>]

\* The file connect() places: the six lines, owned by root, mode 600.
Placed(s) ==
    /\ config_path[s] \in DOMAIN fs
    /\ fs[config_path[s]] = [content |-> SixLines(s), owner |-> "root", mode |-> "600"]

\* create_config_file has run in the current connect() and open() worked.
Rendered(s) ==
    /\ op[s] \in {"connect", "vpn"}
    /\ ~At(s, "create_config_file")
    /\ exc[s].cls # "IOError"

----------------------------------------------------------------------------
(* C1 *)

\* C1: when the rm of remove_config_file exits non-zero, no exception
\* leaves disconnect(): remove_config_file returns False instead.
C1_RmFailureSwallowed ==
    \A s \in Sessions :
        (Ran(s, "rm") # {} /\ cmds[s][Len(cmds[s])].returncode # 0)
            => (exc[s].cls = "None" /\ rm_ret[s] = "False")

----------------------------------------------------------------------------
(* C2 *)

\* C2: in vpn(), connect() has run (vpnc has exited zero) before the
\* with-block; vpnc-disconnect and rm are never issued before vpnc nor before
\* the block has ended, rm never before vpnc-disconnect; and once the block
\* has ended normally disconnect() runs exactly once: when vpn() is left,
\* vpnc-disconnect has been issued exactly once, and rm once if
\* vpnc-disconnect exited zero (not at all otherwise).
C2_ScopedDisconnect ==
    \A s \in Sessions :
        op[s] = "vpn" =>
            LET V == Ran(s, "vpnc")
                D == Ran(s, "vpnc-disconnect")
                R == Ran(s, "rm")
            IN  /\ (At(s, "yield") \/ block[s] # "none")
                        => \E i \in V : cmds[s][i].returncode = 0
                /\ block[s] = "none" => (D = {} /\ R = {})
                /\ \A i \in D \cup R : \E j \in V : j < i
                /\ \A i \in R : \E j \in D : j < i /\ cmds[s][j].returncode = 0
                /\ (block[s] = "returned" /\ pc[s] # <<>>)
                        => (Cardinality(D) + Cardinality(R) = 2 - Len(pc[s])
                            /\ pc[s] \in {disconnect, Tail(disconnect)})
                /\ (block[s] = "returned" /\ pc[s] = <<>>)
                        => /\ Cardinality(D) = 1
                           /\ Cardinality(R) <= 1
                           /\ R # {} <=> (\A i \in D : cmds[s][i].returncode = 0)

\* vpn() has been left after a normal block and a complete disconnect().
C2_Witness ==
    \E s \in Sessions :
        /\ op[s] = "vpn" /\ block[s] = "returned" /\ pc[s] = <<>>
        /\ Programs(s) = <<"mv", "chown", "chmod", "vpnc", "vpnc-disconnect", "rm">>
        /\ exc[s].cls = "None"

----------------------------------------------------------------------------
(* C3 *)

\* C3: when the with-block raises, vpn() is left with the block's exception
\* and disconnect() is not run: no vpnc-disconnect and no rm is issued, the
\* daemon this session started stays up and the placed config file stays at
\* the privileged path.
C3_NoCleanupOnException ==
    \A s \in Sessions :
        (op[s] = "vpn" /\ block[s] = "raised") =>
            /\ pc[s] = <<>>
            /\ exc[s].cls = "BlockError"
            /\ Ran(s, "vpnc-disconnect") = {} /\ Ran(s, "rm") = {}
            /\ tunnel.up /\ tunnel.by = s
            /\ Placed(s)

C3_Witness ==
    \E s \in Sessions :
        /\ op[s] = "vpn" /\ block[s] = "raised"
        /\ Programs(s) = <<"mv", "chown", "chmod", "vpnc">>
        /\ tunnel.up /\ config_path[s] \in DOMAIN fs

----------------------------------------------------------------------------
(* C4 *)

\* C4: when connect() has returned and the disconnect() that follows it has
\* returned, every command having exited zero (or vpn() has been left that
\* way), there is no file at the privileged path and none at the temporary
\* path.
C4_NoFileLeft ==
    \A s \in Sessions :
        (/\ pc[s] = <<>> /\ exc[s].cls = "None" /\ AllZero(s)
         /\ \/ op[s] = "disconnect" /\ last[s] = <<"connect", "returned">>
            \/ op[s] = "vpn")
            => /\ config_path[s] \notin DOMAIN fs
               /\ temp_config_path[s] \notin DOMAIN fs

C4_Witness ==
    \E s \in Sessions :
        /\ pc[s] = <<>> /\ exc[s].cls = "None"
        /\ op[s] = "disconnect" /\ last[s] = <<"connect", "returned">>
        /\ Programs(s) = <<"vpnc-disconnect", "rm">> /\ AllZero(s)
        /\ config_path[s] \notin DOMAIN fs
        /\ temp_config_path[s] \notin DOMAIN fs

----------------------------------------------------------------------------
(* C5 *)

\* C5: connect() runs render, mv, chown root:root, chmod 600, vpnc in that
\* order: whenever vpnc is about to be invoked or has been invoked, the
\* commands before it in the call are exactly mv, chown, chmod, each having
\* exited zero, and at the moment vpnc is invoked the rendered six-line file
\* is at the privileged path with owner root and mode 600.
C5_VpncAfterPlacement ==
    \A s \in Sessions :
        /\ At(s, "vpnc") =>
                /\ Programs(s) = <<"mv", "chown", "chmod">>
                /\ AllZero(s)
                /\ Placed(s)
        /\ \A i \in Ran(s, "vpnc") :
                /\ i = 4
                /\ SubSeq(Programs(s), 1, 3) = <<"mv", "chown", "chmod">>
                /\ \A j \in 1..3 : cmds[s][j].returncode = 0
                /\ Lacking(s) = {}
                /\ cmds[s][2].cmd = << <<"chown">>, <<"root:root">>, config_path[s] >>
                /\ cmds[s][3].cmd = << <<"chmod">>, <<"600">>, config_path[s] >>

\* vpnc is about to be invoked on a placed file.
C5_Witness ==
    \E s \in Sessions : At(s, "vpnc") /\ Placed(s) /\ op[s] = "connect"

----------------------------------------------------------------------------
(* C6 *)

\* C6: process_call raises exactly when the exit code is not zero: for a
\* non-zero code n, positive or negative, a ProcessException whose returncode
\* is n and whose cmd is the argument list invoked; for zero nothing is
\* raised and (0, stdout, stderr) is returned.  A raised exception that no
\* try of the method catches is the one the call leaves with.
C6_ExitCodeDecides ==
    \A s \in Sessions :
        \A i \in 1..Len(cmds[s]) :
            LET e == cmds[s][i]
            IN  IF e.returncode # 0
                THEN /\ e.result.raised
                     /\ e.result.exc.cls = "ProcessException"
                     /\ e.result.exc.returncode = e.returncode
                     /\ e.result.exc.cmd = e.cmd
                     /\ i = Len(cmds[s])
                     /\ exc[s] = e.result.exc
                ELSE /\ ~e.result.raised
                     /\ e.result.exc = NoExc
                     /\ e.result.ret = <<0, Stdout(0), Stderr(0)>>

\* A command killed by a signal has raised, after one that returned.
C6_Witness ==
    \E s \in Sessions :
        /\ Len(cmds[s]) = 2
        /\ cmds[s][1].returncode = 0 /\ ~cmds[s][1].result.raised
        /\ cmds[s][2].returncode = -9
        /\ exc[s].cls = "ProcessException" /\ exc[s].returncode = -9
        /\ exc[s].cmd = chown_args(s)

----------------------------------------------------------------------------
(* C7 *)

\* C7 as stated: rendering a config that lacks a required field completes,
\* and the file holds all six lines in the fixed order, the missing value
\* replaced by a marker.
C7_MissingFieldRendered ==
    \A s \in Sessions :
        (Rendered(s) /\ Lacking(s) # {}) =>
            /\ exc[s].cls # "KeyError"
            /\ cmds[s] = <<>> =>
                /\ temp_config_path[s] \in DOMAIN fs
                /\ LET text == fs[temp_config_path[s]].content
                   IN  /\ Len(text) = Len(Template)
                       /\ \A i \in 1..Len(Template) : text[i][1] = Template[i][1]

\* C7 amended: rendering a config that lacks a required field raises
\* KeyError for the first key, in the template's order, that is missing;
\* the temporary file is left created or truncated, with no line in it, and
\* connect() invokes no command.
C7_MissingFieldRaises ==
    \A s \in Sessions :
        (Rendered(s) /\ Lacking(s) # {}) =>
            /\ exc[s].cls = "KeyError"
            /\ \E i \in Lacking(s) :
                /\ \A j \in Lacking(s) : i <= j
                /\ exc[s].cmd = << <<Template[i][2]>> >>
            /\ pc[s] = <<>>
            /\ cmds[s] = <<>>
            /\ temp_config_path[s] \in DOMAIN fs
            /\ fs[temp_config_path[s]].content = NoLines

\* A config lacking two keys has been rendered: KeyError names the first.
C7_Witness ==
    \E s \in Sessions :
        /\ Rendered(s) /\ Cardinality(Lacking(s)) = 2
        /\ exc[s] = OtherException("KeyError", "IPSec_secret")
        /\ fs[temp_config_path[s]].content = NoLines

----------------------------------------------------------------------------
(* C8 *)

\* The newest process_call of session s ran program `name` and exited zero.
RanOk(s, name) ==
    /\ Invoked(s)
    /\ Newest(s).cmd[1] = <<name>>
    /\ Newest(s).returncode = 0

\* connect() has returned and the session has called nothing since.
Connected(s) == op[s] = "connect" /\ pc[s] = <<>> /\ exc[s].cls = "None"

\* C8: two sessions with the default paths share the staging file, the
\* privileged file and the profile name, so they are not isolated: a mv by
\* one session replaces the other's privileged file by whatever is in the
\* shared staging file, and an rm by one session removes the other's
\* privileged file.
C8_NotIsolated ==
    [][\A s, o \in Sessions :
        s # o =>
            /\ vpnc_args(s) = vpnc_args(o)
            /\ RanOk(s, "mv") =>
                /\ temp_config_path[o] \notin DOMAIN fs'
                /\ config_path[o] \in DOMAIN fs'
                /\ fs'[config_path[o]] = fs[temp_config_path[o]]
            /\ RanOk(s, "rm") => config_path[o] \notin DOMAIN fs']_vars

\* Session 1 is connected, its daemon is up, and the file at its privileged
\* path is gone or is no longer the one it placed: session 2 replaced or
\* removed it.
C8_Witness ==
    /\ Connected(1)
    /\ tunnel.up /\ tunnel.by = 1 /\ tunnel.conf = SixLines(1)
    /\ ~Placed(1)
    /\ Ran(2, "mv") # {} \/ Ran(2, "rm") # {}

----------------------------------------------------------------------------
(* C9 *)

\* C9: nothing is rolled back.  When a command of connect() or disconnect()
\* exits non-zero, the call is left at once with that command's
\* ProcessException, the filesystem and the daemon are as they were before
\* the command, and no command is ever invoked after a failed one in the
\* same call.  A failed vpnc leaves the config file at the privileged path,
\* and so does a failed vpnc-disconnect when the file was there.
C9_NoRollback ==
    [][\A s \in Sessions :
        Invoked(s) =>
            /\ AllZero(s)
            /\ Newest(s).returncode # 0 =>
                /\ pc'[s] = <<>>
                /\ exc'[s].cls = "ProcessException"
                /\ exc'[s].returncode = Newest(s).returncode
                /\ exc'[s].cmd = Newest(s).cmd
                /\ fs' = fs
                /\ tunnel' = tunnel
                /\ Newest(s).cmd[1] = <<"vpnc">> => config_path[s] \in DOMAIN fs'
                /\ (Newest(s).cmd[1] = <<"vpnc-disconnect">> /\ config_path[s] \in DOMAIN fs)
                        => config_path[s] \in DOMAIN fs']_vars

\* vpnc has failed in connect() and the placed file is still there.
C9_Witness ==
    \E s \in Sessions :
        /\ op[s] = "connect" /\ pc[s] = <<>>
        /\ Programs(s) = <<"mv", "chown", "chmod", "vpnc">>
        /\ exc[s].cls = "ProcessException" /\ exc[s].cmd = vpnc_args(s)
        /\ Placed(s)
        /\ temp_config_path[s] \notin DOMAIN fs

----------------------------------------------------------------------------
(* C10 *)

\* C10: every invocation of vpnc passes the profile name tempvpnc, whatever
\* config_file and config_folder are, while the file connect() has placed
\* by then is config_folder/config_file; the profile vpnc looks up is that
\* file only if config_file is tempvpnc.conf.
C10_FixedProfile ==
    \A s \in Sessions :
        /\ At(s, "vpnc") =>
                /\ config_path[s] = Join(config_folder[s], config_file[s])
                /\ Placed(s)
        /\ \A i \in Ran(s, "vpnc") :
                /\ cmds[s][i].cmd = << <<"vpnc">>, <<"tempvpnc">> >>
                /\ cmds[s][1].cmd[3] = config_folder[s]
                /\ Basename(cmds[s][1].cmd[2]) = config_file[s]
                /\ ProfilePath(platform, cmds[s][i].cmd[2]) = config_path[s]
                        => config_file[s] = DefaultConfigFile

\* vpnc has come up on a profile that is not the file this connect() placed.
C10_Witness ==
    \E s \in Sessions :
        /\ config_file[s] # DefaultConfigFile
        /\ Connected(s)
        /\ Placed(s)
        /\ tunnel.up /\ tunnel.by = s /\ tunnel.conf # SixLines(s)

====
